---- MODULE Spec2Model ----
(***************************************************************************)
(* A model of the token trie and the streaming term search of             *)
(* src/trie_search.py: get_trie_from_list, add_frequency_map, read_word    *)
(* and find_matches, and of find_matches of src/python-project.py, which   *)
(* is run on the same words beside it.                                     *)
(*                                                                         *)
(* Python values are encoded as follows.                                   *)
(*   str    a sequence of one-character strings, "a b" = <<"a"," ","b">>   *)
(*   dict   a function from its keys to its values                        *)
(*   trie   the dicts get_trie_from_list allocates live in `heap`, a       *)
(*          sequence indexed by allocation order; heap[root] is the root   *)
(*          dict.  A value stored in a trie dict is either a reference to  *)
(*          another dict (its index in heap, >= 1) or the str `end`        *)
(*          (written STR).                                                 *)
(***************************************************************************)
EXTENDS Integers, Sequences, FiniteSets, TLC

VARIABLES
    terms,             \* the `terms` argument of get_trie_from_list
    heap,              \* the dicts of the trie, by allocation order
    ti,                \* number of terms the loop of line 80 has consumed
    tokens,            \* the words read_word yields for the search file
    pos,               \* number of words the loop of line 130 has consumed
    word,              \* the loop variable of line 130
    possible_matches,  \* the queue of line 124
    results,           \* the frequency map of line 126
    i,                 \* the loop variable of line 133
    n,                 \* len(possible_matches) when the loop of line 133 began
    fi,                \* number of candidates the loop of line 155 has consumed
    pc,                \* position in the program
    raised,            \* the exception that ended the program, or "none"
    ret,               \* what get_trie_from_list returned, or "" before it returns
    calls,             \* the (term, count) arguments of the direct calls of add_frequency_map
    arrived,           \* history: possible_matches as it was when `word` was read
    pp                 \* the locals of find_matches of python-project.py

vars == <<terms, heap, ti, tokens, pos, word, possible_matches, results,
          i, n, fi, pc, raised, ret, calls, arrived, pp>>

-----------------------------------------------------------------------------
(* Bounds of the model. *)

MaxTerms == 2
MaxTermLen == 2
MaxText == 3
MaxCalls == 4

(* The raw words the bounded inputs are made of.  The term files of Spec   *)
(* spell the letter in upper case only, so a term meets a word of the text *)
(* only through lower().  "_" is a word of the class [\w'] like any other. *)
TermWords == { <<"A">>, <<"_">> }
TextWords == { <<"a">>, <<"A">>, <<"_">> }
BuildWords == { <<"a">>, <<"A">>, <<"_">> }

SeqsUpTo(S, k) == UNION { [1..m -> S] : m \in 0..k }

-----------------------------------------------------------------------------
(* str operations. *)

\* the characters matched by the class [\w'] of the regular expression
WordChars == { "a", "b", "A", "B", "_", "'" }

\* str.lower() on one character
LowerChar(c) == IF c = "A" THEN "a" ELSE IF c = "B" THEN "b" ELSE c

\* str.lower()
lower(s) == [k \in 1..Len(s) |-> LowerChar(s[k])]

\* re.findall(r"[\w']+", s): the maximal runs of word characters, in order
RECURSIVE FindallFrom(_, _, _, _)
FindallFrom(s, k, run, acc) ==
    IF k > Len(s)
    THEN IF run = << >> THEN acc ELSE Append(acc, run)
    ELSE IF s[k] \in WordChars
         THEN FindallFrom(s, k + 1, Append(run, s[k]), acc)
         ELSE FindallFrom(s, k + 1, << >>,
                          IF run = << >> THEN acc ELSE Append(acc, run))

findall(s) == FindallFrom(s, 1, << >>, << >>)

\* sep.join(ws)
RECURSIVE join(_, _)
join(sep, ws) ==
    IF ws = << >> THEN << >>
    ELSE IF Len(ws) = 1 THEN ws[1]
    ELSE ws[1] \o sep \o join(sep, Tail(ws))

\* `x in s` for two strs: x is a contiguous part of s
IsSubstring(x, s) ==
    \E k \in 0..(Len(s) - Len(x)) : SubSeq(s, k + 1, k + Len(x)) = x

\* the words read_word yields for a file given as its lines
RECURSIVE read_word(_)
read_word(f) ==
    IF f = << >> THEN << >>
    ELSE LET ws == findall(Head(f))
         IN  [k \in 1..Len(ws) |-> lower(ws[k])] \o read_word(Tail(f))

-----------------------------------------------------------------------------
(* dict operations and the trie. *)

\* the trie delimiter: parameter `end` of get_trie_from_list, `_end` of find_matches
end == <<"_">>

\* a trie value that is the str `end` and not a dict
STR == 0

\* the root dict is the first dict get_trie_from_list allocates
root == 1

EmptyDict == << >>

\* d[key] = val
SetItem(d, key, val) ==
    [x \in (DOMAIN d) \cup {key} |-> IF x = key THEN val ELSE d[x]]

\* heap[node].setdefault(key, {}): the value now under key, and the heap
setdefault(h, node, key) ==
    IF key \in DOMAIN h[node]
    THEN [heap |-> h, val |-> h[node][key]]
    ELSE [heap |-> Append([h EXCEPT ![node] = SetItem(@, key, Len(h) + 1)],
                          EmptyDict),
          val  |-> Len(h) + 1]

\* the inner loop of get_trie_from_list: drill down word by word
RECURSIVE Drill(_, _, _, _)
Drill(h, temp_dict, ws, k) ==
    IF k > Len(ws) THEN [heap |-> h, temp_dict |-> temp_dict, raised |-> "none"]
    ELSE IF temp_dict = STR
         THEN [heap |-> h, temp_dict |-> temp_dict, raised |-> "AttributeError"]
         ELSE LET r == setdefault(h, temp_dict, lower(ws[k]))
              IN  Drill(r.heap, r.val, ws, k + 1)

\* one iteration of the loop over the terms: insert one term
InsertTerm(h, term) ==
    IF term.type # "str" THEN [heap |-> h, raised |-> "TypeError"]
    ELSE LET d == Drill(h, root, findall(term.val), 1)
         IN  IF d.raised # "none" THEN [heap |-> d.heap, raised |-> d.raised]
             ELSE IF d.temp_dict = STR
                  THEN [heap |-> d.heap, raised |-> "TypeError"]
                  ELSE [heap   |-> [d.heap EXCEPT ![d.temp_dict] = SetItem(@, end, STR)],
                        raised |-> "none"]

\* the loop over the terms, from term k on
RECURSIVE BuildFrom(_, _, _)
BuildFrom(h, items, k) ==
    IF k > Len(items) THEN [heap |-> h, raised |-> "none"]
    ELSE LET r == InsertTerm(h, items[k])
         IN  IF r.raised # "none" THEN r ELSE BuildFrom(r.heap, items, k + 1)

\* get_trie_from_list(t) as one call: what it returns or raises, and the dicts
get_trie_from_list(t) ==
    IF t.type # "list" THEN [ret |-> "None", heap |-> << >>, raised |-> "none"]
    ELSE LET b == BuildFrom(<<EmptyDict>>, t.items, 1)
         IN  [ret    |-> IF b.raised = "none" THEN "dict" ELSE "",
              heap   |-> b.heap,
              raised |-> b.raised]

\* the value of a trie as == compares dicts: every key path from the root dict,
\* with the kind of value it leads to
RECURSIVE PathsFrom(_, _, _)
PathsFrom(h, node, prefix) ==
    { <<prefix, "dict">> } \cup
    UNION { IF h[node][k] = STR
            THEN { <<Append(prefix, k), "str">> }
            ELSE PathsFrom(h, h[node][k], Append(prefix, k)) : k \in DOMAIN h[node] }

TrieView(h) == IF h = << >> THEN {} ELSE PathsFrom(h, root, << >>)

\* `key in t` for a trie value t: a dict's keys, or a part of the str `end`
Contains(h, t, key) ==
    IF t = STR THEN IsSubstring(key, end) ELSE key \in DOMAIN h[t]

\* add_frequency_map storing 0 for a key it sees for the first time
add_frequency_map_from_zero(d, term, count) ==
    IF term \in DOMAIN d
    THEN [d EXCEPT ![term] = d[term] + count]
    ELSE [x \in (DOMAIN d) \cup {term} |-> IF x = term THEN 0 ELSE d[x]]

\* add_frequency_map that never lets a count fall below 0
add_frequency_map_clamped(d, term, count) ==
    LET v == (IF term \in DOMAIN d THEN d[term] ELSE 0) + count
    IN  [x \in (DOMAIN d) \cup {term} |->
            IF x = term THEN (IF v < 0 THEN 0 ELSE v) ELSE d[x]]

\* add_frequency_map storing the count over the one the key had
add_frequency_map_overwrite(d, term, count) ==
    [x \in (DOMAIN d) \cup {term} |-> IF x = term THEN count ELSE d[x]]

\* add_frequency_map(d, term, count)
add_frequency_map(d, term, count) ==
    IF term \in DOMAIN d
    THEN [d EXCEPT ![term] = d[term] + count]
    ELSE [x \in (DOMAIN d) \cup {term} |-> IF x = term THEN count ELSE d[x]]

\* the default of the parameter `count` of add_frequency_map
DefaultCount == 1

-----------------------------------------------------------------------------
(* Inputs. *)

StrItem(s) == [type |-> "str", val |-> s]

\* the lines of a term file after strip(): words separated by one space
TermStrings == { join(<<" ">>, ws) : ws \in SeqsUpTo(TermWords, MaxTermLen) }

\* the list built at line 115
TermLists ==
    { [type |-> "list", items |-> [k \in 1..Len(l) |-> StrItem(l[k])]] :
        l \in SeqsUpTo(TermStrings, MaxTerms) }

\* search files: one line of words separated by one space
TextFiles == { << join(<<" ">>, ws) >> : ws \in SeqsUpTo(TextWords, MaxText) }

\* arguments of a direct call of get_trie_from_list: lists of strs (words in
\* either case, or punctuation only) and of non-strs, and values that are no list
BuildStrings ==
    { join(<<" ">>, ws) : ws \in SeqsUpTo(BuildWords, MaxTermLen) } \cup { <<"-">> }

BuildItems == { StrItem(s) : s \in BuildStrings } \cup { [type |-> "int", val |-> << >>] }

BuildArgs ==
    { [type |-> "list", items |-> l] : l \in SeqsUpTo(BuildItems, MaxTerms) }
    \cup { [type |-> "tuple", items |-> l.items] : l \in TermLists }
    \cup { [type |-> "str", items |-> << >>], [type |-> "NoneType", items |-> << >>] }

-----------------------------------------------------------------------------
(* find_matches of trie_search.py. *)

Start ==
    /\ heap = << >>
    /\ ti = 0
    /\ pos = 0
    /\ word = << >>
    /\ possible_matches = << >>
    /\ results = << >>
    /\ i = 0
    /\ n = 0
    /\ fi = 0
    /\ pc = "validate"
    /\ raised = "none"
    /\ ret = ""
    /\ calls = << >>
    /\ arrived = << >>
    /\ pp = [possible_matches |-> << >>, results |-> << >>, raised |-> "none"]

Init ==
    /\ terms \in TermLists
    /\ \E f \in TextFiles : tokens = read_word(f)
    /\ Start

\* get_trie_from_list without the type check of line 72
ValidateNoCheck ==
    /\ pc = "validate"
    /\ pc' = "build"
    /\ heap' = <<EmptyDict>>
    /\ UNCHANGED <<terms, ti, tokens, pos, word, possible_matches, results,
                   i, n, fi, raised, ret, calls, arrived, pp>>

\* get_trie_from_list, lines 72-76: the type check and root = dict()
Validate ==
    /\ pc = "validate"
    /\ IF terms.type # "list"
       THEN /\ pc' = "returned"
            /\ ret' = "None"
            /\ heap' = heap
       ELSE /\ pc' = "build"
            /\ ret' = ret
            /\ heap' = <<EmptyDict>>
    /\ UNCHANGED <<terms, ti, tokens, pos, word, possible_matches, results,
                   i, n, fi, raised, calls, arrived, pp>>

\* get_trie_from_list, lines 80-85: one iteration of the loop over the terms
BuildTerm ==
    /\ pc = "build"
    /\ ti < Len(terms.items)
    /\ LET r == InsertTerm(heap, terms.items[ti + 1])
       IN  /\ heap' = r.heap
           /\ raised' = r.raised
           /\ pc' = IF r.raised = "none" THEN "build" ELSE "error"
    /\ ti' = ti + 1
    /\ UNCHANGED <<terms, tokens, pos, word, possible_matches, results,
                   i, n, fi, ret, calls, arrived, pp>>

\* get_trie_from_list, line 87: return root
ReturnTrie ==
    /\ pc = "build"
    /\ ti = Len(terms.items)
    /\ ret' = "dict"
    /\ pc' = "returned"
    /\ UNCHANGED <<terms, heap, ti, tokens, pos, word, possible_matches, results,
                   i, n, fi, raised, calls, arrived, pp>>

\* find_matches, lines 116-126: root is the trie, the queue and the map are empty
BeginSearch ==
    /\ pc = "returned"
    /\ possible_matches' = << >>
    /\ results' = << >>
    /\ pc' = "read"
    /\ UNCHANGED <<terms, heap, ti, tokens, pos, word, i, n, fi, raised, ret, calls, arrived, pp>>

\* line 130: the next word of the file, or the end of the loop
NextWord ==
    /\ pc = "read"
    /\ IF pos < Len(tokens)
       THEN /\ word' = tokens[pos + 1]
            /\ pos' = pos + 1
            /\ i' = 0
            /\ n' = Len(possible_matches)
            /\ arrived' = possible_matches
            /\ pc' = "scan"
            /\ fi' = fi
       ELSE /\ pc' = "flush"
            /\ fi' = 0
            /\ UNCHANGED <<word, pos, i, n, arrived>>
    /\ UNCHANGED <<terms, heap, ti, tokens, possible_matches, results,
                   raised, ret, calls>>

ReadWord == NextWord /\ UNCHANGED pp

\* the iteration putting the candidate it advanced back at the head of the queue
ScanCandidatePushFront ==
    /\ pc = "scan"
    /\ i < n
    /\ LET cur == Head(possible_matches)
           rest == Tail(possible_matches)
       IN  /\ results' = IF Contains(heap, cur.trie, end)
                         THEN add_frequency_map(results, join(<<" ">>, cur.words),
                                                DefaultCount)
                         ELSE results
           /\ IF Contains(heap, cur.trie, word)
              THEN IF cur.trie = STR
                   THEN /\ raised' = "TypeError"
                        /\ pc' = "error"
                        /\ possible_matches' = rest
                   ELSE /\ possible_matches' =
                              <<[trie  |-> heap[cur.trie][word],
                                 words |-> Append(cur.words, word)]>> \o rest
                        /\ UNCHANGED <<raised, pc>>
              ELSE /\ possible_matches' = rest
                   /\ UNCHANGED <<raised, pc>>
    /\ i' = i + 1
    /\ UNCHANGED <<terms, heap, ti, tokens, pos, word, n, fi, ret, calls, arrived, pp>>

\* lines 133-145: one iteration of the loop over the queue
ScanCandidate ==
    /\ pc = "scan"
    /\ i < n
    /\ LET cur == Head(possible_matches)
           rest == Tail(possible_matches)
       IN  /\ results' = IF Contains(heap, cur.trie, end)
                         THEN add_frequency_map(results, join(<<" ">>, cur.words),
                                                DefaultCount)
                         ELSE results
           /\ IF Contains(heap, cur.trie, word)
              THEN IF cur.trie = STR
                   THEN /\ raised' = "TypeError"
                        /\ pc' = "error"
                        /\ possible_matches' = rest
                   ELSE /\ possible_matches' =
                              Append(rest, [trie  |-> heap[cur.trie][word],
                                            words |-> Append(cur.words, word)])
                        /\ UNCHANGED <<raised, pc>>
              ELSE /\ possible_matches' = rest
                   /\ UNCHANGED <<raised, pc>>
    /\ i' = i + 1
    /\ UNCHANGED <<terms, heap, ti, tokens, pos, word, n, fi, ret, calls, arrived, pp>>

\* the root check starting the candidate at the root instead of root[word]
CheckRootAtRoot ==
    /\ pc = "scan"
    /\ i = n
    /\ possible_matches' =
          IF word \in DOMAIN heap[root]
          THEN Append(possible_matches, [trie |-> root, words |-> <<word>>])
          ELSE possible_matches
    /\ pc' = "read"
    /\ UNCHANGED <<terms, heap, ti, tokens, pos, word, results, i, n, fi,
                   raised, ret, calls, arrived, pp>>

\* the root check written with setdefault, which adds the missing word
CheckRootSetdefault ==
    /\ pc = "scan"
    /\ i = n
    /\ LET r == setdefault(heap, root, word)
       IN  /\ heap' = r.heap
           /\ possible_matches' =
                  Append(possible_matches, [trie |-> r.val, words |-> <<word>>])
    /\ pc' = "read"
    /\ UNCHANGED <<terms, ti, tokens, pos, word, results, i, n, fi,
                   raised, ret, calls, arrived, pp>>

\* lines 150-151: a candidate for the word itself
CheckRoot ==
    /\ pc = "scan"
    /\ i = n
    /\ possible_matches' =
          IF word \in DOMAIN heap[root]
          THEN Append(possible_matches,
                      [trie |-> heap[root][word], words |-> <<word>>])
          ELSE possible_matches
    /\ pc' = "read"
    /\ UNCHANGED <<terms, heap, ti, tokens, pos, word, results, i, n, fi,
                   raised, ret, calls, arrived, pp>>

\* lines 155-159: one iteration of the final pass
FlushCandidate ==
    /\ pc = "flush"
    /\ fi < Len(possible_matches)
    /\ LET cur == possible_matches[fi + 1]
       IN  results' = IF Contains(heap, cur.trie, end)
                      THEN add_frequency_map(results, join(<<" ">>, cur.words),
                                             DefaultCount)
                      ELSE results
    /\ fi' = fi + 1
    /\ UNCHANGED <<terms, heap, ti, tokens, pos, word, possible_matches,
                   i, n, pc, raised, ret, calls, arrived, pp>>

\* line 161
Return ==
    /\ pc = "flush"
    /\ fi = Len(possible_matches)
    /\ pc' = "done"
    /\ UNCHANGED <<terms, heap, ti, tokens, pos, word, possible_matches, results,
                   i, n, fi, raised, ret, calls, arrived, pp>>

Next ==
    \/ Validate
    \/ BuildTerm
    \/ ReturnTrie
    \/ BeginSearch
    \/ ReadWord
    \/ ScanCandidate
    \/ CheckRoot
    \/ FlushCandidate
    \/ Return

Spec == Init /\ [][Next]_vars

-----------------------------------------------------------------------------
(* find_matches of python-project.py, run on the same terms and the same
   words.  Its get_trie_from_list and read_word (lines 27-69) are the same
   statements as those of trie_search.py, so it searches the same heap. *)

\* python-project.py line 78: freq[term] = freq[term]+1 if term in freq else 1
add_to_frequency_list(freq, term) ==
    IF term \in DOMAIN freq
    THEN [freq EXCEPT ![term] = freq[term] + 1]
    ELSE [k \in DOMAIN freq \cup {term} |-> IF k = term THEN 1 ELSE freq[k]]

\* del possible_matches[0], whatever the index
DelHead(list, k) == Tail(list)

\* del possible_matches[i]
Del(list, k) == SubSeq(list, 1, k - 1) \o SubSeq(list, k + 1, Len(list))

\* lines 116-129: the scan from the last index down to the first; position k
\* of the sequence is index k - 1 of the list.  An exception ends the call.
RECURSIVE ScanDown(_, _, _)
ScanDown(st, w, k) ==
    IF k = 0
    THEN st
    ELSE LET cur == st.possible_matches[k]
             res == IF Contains(heap, cur.trie, end)
                    THEN add_to_frequency_list(st.results, join(<<" ">>, cur.words))
                    ELSE st.results
         IN  IF Contains(heap, cur.trie, w)
             THEN IF cur.trie = STR
                  THEN [st EXCEPT !.results = res, !.raised = "TypeError"]
                  ELSE ScanDown([st EXCEPT !.results = res,
                                           !.possible_matches[k] =
                                               [trie  |-> heap[cur.trie][w],
                                                words |-> Append(cur.words, w)]],
                                w, k - 1)
             ELSE ScanDown([st EXCEPT !.results = res,
                                      !.possible_matches = Del(st.possible_matches, k)],
                           w, k - 1)

\* lines 112-134: the body of the loop for one word
ProcessWord(st, w) ==
    IF st.raised # "none"
    THEN st
    ELSE LET scanned == ScanDown(st, w, Len(st.possible_matches))
         IN  IF scanned.raised = "none" /\ Contains(heap, root, w)
             THEN [scanned EXCEPT !.possible_matches =
                       Append(scanned.possible_matches,
                              [trie |-> heap[root][w], words |-> <<w>>])]
             ELSE scanned

\* lines 138-142: the final pass, from the first candidate on
RECURSIVE FinalPass(_, _)
FinalPass(st, k) ==
    IF st.raised # "none" \/ k > Len(st.possible_matches)
    THEN st
    ELSE LET cur == st.possible_matches[k]
         IN  FinalPass(IF Contains(heap, cur.trie, end)
                       THEN [st EXCEPT !.results =
                                add_to_frequency_list(st.results, join(<<" ">>, cur.words))]
                       ELSE st,
                       k + 1)

\* Both searches take the next word of the same text: trie_search.py begins
\* its scan of it, python-project.py processes it (or, at the end of the text,
\* makes its final pass).
BothReadWord ==
    /\ NextWord
    /\ pp' = IF pos < Len(tokens)
             THEN ProcessWord(pp, tokens[pos + 1])
             ELSE FinalPass(pp, 1)

NextBoth ==
    \/ Validate
    \/ BuildTerm
    \/ ReturnTrie
    \/ BeginSearch
    \/ BothReadWord
    \/ ScanCandidate
    \/ CheckRoot
    \/ FlushCandidate
    \/ Return

SpecBoth == Init /\ [][NextBoth]_vars

-----------------------------------------------------------------------------
(* A direct call of get_trie_from_list. *)

InitBuild ==
    /\ terms \in BuildArgs
    /\ tokens = << >>
    /\ Start

NextBuild ==
    \/ Validate
    \/ BuildTerm
    \/ ReturnTrie

SpecBuild == InitBuild /\ [][NextBuild]_vars

-----------------------------------------------------------------------------
(* Direct calls of add_frequency_map, as in tests.py. *)

FreqKeys == { <<"a">>, <<"b">> }
FreqCounts == { -1, 1, 2 }

InitFreq ==
    /\ terms = [type |-> "list", items |-> << >>]
    /\ tokens = << >>
    /\ Start

\* add_frequency_map(mylist, key) and add_frequency_map(mylist, key, count)
Record ==
    /\ Len(calls) < MaxCalls
    /\ \E key \in FreqKeys, count \in FreqCounts \cup {DefaultCount} :
          /\ results' = add_frequency_map(results, key, count)
          /\ calls' = Append(calls, [term |-> key, count |-> count])
    /\ UNCHANGED <<terms, heap, ti, tokens, pos, word, possible_matches,
                   i, n, fi, pc, raised, ret, arrived, pp>>

NextFreq == Record

SpecFreq == InitFreq /\ [][NextFreq]_vars

-----------------------------------------------------------------------------
(* Vocabulary of the properties. *)

\* the token sequence of a term string: its words, lowercased
TermTokens(s) == LET ws == findall(s) IN [k \in 1..Len(ws) |-> lower(ws[k])]

\* the token sequences of the terms of the list, all of them
AllTermTokens == { TermTokens(terms.items[k].val) : k \in 1..Len(terms.items) }

\* the token sequences of the terms that have at least one token
InsertedTerms == AllTermTokens \ { << >> }

\* the canonical string of a token sequence
Canonical(t) == join(<<" ">>, t)

\* the start positions at which t occurs contiguously in txt
Starts(t, txt) ==
    { p \in 1..(Len(txt) - Len(t) + 1) : SubSeq(txt, p, p + Len(t) - 1) = t }

Occurrences(t, txt) == Cardinality(Starts(t, txt))

\* the count the map d gives a key, 0 for an absent key
Count(d, key) == IF key \in DOMAIN d THEN d[key] ELSE 0

\* find_matches has ended, by a return or by an exception
Ended == pc \in {"done", "error"}

\* no term and no word of the text is the delimiter, and no term is blank
CleanInput ==
    /\ \A t \in AllTermTokens : t # << >> /\ \A k \in 1..Len(t) : t[k] # end
    /\ \A k \in 1..Len(tokens) : tokens[k] # end

\* a is a proper prefix of b
IsProperPrefix(a, b) == Len(a) < Len(b) /\ SubSeq(b, 1, Len(a)) = a

\* t occurs at the very end of txt
EndsAtLast(t, txt) == (Len(txt) - Len(t) + 1) \in Starts(t, txt)

\* the sum of the counts the calls recorded for key
RECURSIVE SumFor(_, _)
SumFor(key, cs) ==
    IF cs = << >> THEN 0
    ELSE (IF Head(cs).term = key THEN Head(cs).count ELSE 0) + SumFor(key, Tail(cs))

\* the str items of the argument, and the items left when the blank ones go
IsBlank(item) == item.type = "str" /\ TermTokens(item.val) = << >>

WithoutBlank(t) == [type |-> t.type, items |-> SelectSeq(t.items, LAMBDA x : ~IsBlank(x))]

\* get_trie_from_list has ended, by a return or by an exception of its own
BuildEnded == pc = "returned" \/ (pc = "error" /\ ret = "")

\* the argument is a list, and a list of strs
IsList == terms.type = "list"

AllStr == \A k \in 1..Len(terms.items) : terms.items[k].type = "str"

-----------------------------------------------------------------------------
(* The model agrees with itself: the step-by-step build is the one call. *)

BuildAgrees ==
    BuildEnded =>
        LET r == get_trie_from_list(terms)
        IN  r.raised = raised /\ r.ret = ret /\ r.heap = heap

(* On input without the delimiter and without blank terms the map is the    *)
(* exact count of the occurrences of every term, and nothing is raised.     *)
CleanInputExactCounts ==
    (Ended /\ CleanInput) =>
        /\ pc = "done"
        /\ DOMAIN results =
              { Canonical(t) : t \in { u \in InsertedTerms : Occurrences(u, tokens) > 0 } }
        /\ \A t \in InsertedTerms :
              Count(results, Canonical(t)) = Occurrences(t, tokens)

-----------------------------------------------------------------------------
(* C1.  The map find_matches returns gives every term of the list exactly  *)
(* the number of start positions at which its token sequence occurs in the *)
(* text, overlapping occurrences of one term counted one by one.           *)
C1_ExactCounts ==
    pc = "done" =>
        \A t \in InsertedTerms :
            Count(results, Canonical(t)) = Occurrences(t, tokens)

(* C2.  Nested match: when a term T1 is a proper prefix of a term T2 and   *)
(* T2 occurs in the text, find_matches returns a map in which every        *)
(* occurrence of T2 has counted once for T2 and once for T1.               *)
C2_NestedBothCounted ==
    \A t1 \in InsertedTerms, t2 \in InsertedTerms :
        (Ended /\ IsProperPrefix(t1, t2) /\ Occurrences(t2, tokens) > 0) =>
            /\ pc = "done"
            /\ Count(results, Canonical(t2)) = Occurrences(t2, tokens)
            /\ Count(results, Canonical(t1)) = Occurrences(t1, tokens)

(* C3.  Overlap: when an occurrence of a term T2 starts strictly inside an *)
(* occurrence of a term T1 and ends after it, find_matches returns a map   *)
(* in which both occurrences are counted.                                  *)
C3_OverlapBothCounted ==
    \A t1 \in InsertedTerms, t2 \in InsertedTerms :
        \A p1 \in Starts(t1, tokens), p2 \in Starts(t2, tokens) :
            (Ended /\ p1 < p2 /\ p2 <= p1 + Len(t1) - 1
                   /\ p2 + Len(t2) > p1 + Len(t1)) =>
                /\ pc = "done"
                /\ Count(results, Canonical(t1)) = Occurrences(t1, tokens)
                /\ Count(results, Canonical(t2)) = Occurrences(t2, tokens)

(* C4.  End of stream: an occurrence of a term that ends at the last token *)
(* is not yet counted when the final pass begins and is counted once when  *)
(* find_matches returns: neither missed nor counted twice.                 *)
C4_EndOfStreamCountedOnce ==
    \A t \in InsertedTerms :
        EndsAtLast(t, tokens) =>
            /\ (pc = "flush" /\ fi = 0) =>
                   Count(results, Canonical(t)) = Occurrences(t, tokens) - 1
            /\ pc = "done" =>
                   Count(results, Canonical(t)) = Occurrences(t, tokens)

(* C5.  No spurious keys: at every point of the search and at its end, no  *)
(* value of the map is below 1 and a term that does not occur in the text  *)
(* is not a key.                                                           *)
C5_NoSpuriousKeys ==
    /\ \A key \in DOMAIN results : results[key] >= 1
    /\ \A t \in InsertedTerms :
          Occurrences(t, tokens) = 0 => Canonical(t) \notin DOMAIN results

\* the search has returned, one term was found and another was not
C5_Witness ==
    /\ pc = "done"
    /\ \E t \in InsertedTerms :
          Occurrences(t, tokens) > 0 /\ Count(results, Canonical(t)) >= 1
    /\ \E t \in InsertedTerms :
          Occurrences(t, tokens) = 0 /\ Canonical(t) \notin DOMAIN results

(* C6.  Every key of the map find_matches returns is the canonical string  *)
(* of a term of the list that occurs in the text, whatever the tokens are, *)
(* the token "_" included.                                                 *)
C6_KeysAreTerms ==
    pc = "done" =>
        \A key \in DOMAIN results :
            \E t \in InsertedTerms :
                key = Canonical(t) /\ Occurrences(t, tokens) >= 1

(* C7.  add_frequency_map: after any sequence of calls the keys of the map *)
(* are the keys recorded, and each maps to the sum of the counts recorded  *)
(* for it, unclamped; a call changes no other key.                         *)
C7_SumOfCounts ==
    /\ DOMAIN results = { calls[k].term : k \in 1..Len(calls) }
    /\ \A key \in DOMAIN results : results[key] = SumFor(key, calls)

\* record a, record a, record a with -1, record b with -1
C7_Witness ==
    /\ calls = << [term |-> <<"a">>, count |-> 1], [term |-> <<"a">>, count |-> 1],
                  [term |-> <<"a">>, count |-> -1], [term |-> <<"b">>, count |-> -1] >>
    /\ results[<<"a">>] = 1
    /\ results[<<"b">>] = -1

(* C8.  A term with no token is skipped: the call ends as it does on the   *)
(* list without the blank terms, with the same trie, and the root dict     *)
(* does not carry the end marker.                                          *)
C8_BlankTermsSkipped ==
    BuildEnded =>
        LET r == get_trie_from_list(WithoutBlank(terms))
        IN  /\ r.raised = raised
            /\ r.ret = ret
            /\ TrieView(r.heap) = TrieView(heap)
            /\ ret = "dict" => end \notin DOMAIN heap[root]

(* C9.  Re-inserting a term is idempotent: for a list L that builds a trie *)
(* and a term t with the token sequence of a term of L (a case variant     *)
(* too), the list L + [t] builds the same trie.                            *)
C9_ReinsertIdempotent ==
    (pc = "returned" /\ ret = "dict") =>
        \A s \in BuildStrings :
            TermTokens(s) \in AllTermTokens =>
                LET r == get_trie_from_list(
                            [type |-> "list", items |-> Append(terms.items, StrItem(s))])
                IN  r.ret = "dict" /\ TrieView(r.heap) = TrieView(heap)

-----------------------------------------------------------------------------
(* C11.  Building the trie and searching run to completion for every list  *)
(* of term strings and every sequence of words, the word `_` included:     *)
(* nothing is raised.                                                      *)
C11_Total == pc # "error"

(* C12.  A list of at least one term searched against a text without a     *)
(* word ends by returning the empty map, with no candidate ever created.   *)
C12_EmptyText ==
    (Ended /\ tokens = << >> /\ terms.items # << >>) =>
        (pc = "done" /\ results = << >> /\ possible_matches = << >>)

\* the occurrences of t whose last word comes before word number k
EndedBefore(t, k) == { p \in Starts(t, tokens) : p + Len(t) - 1 < k }

(* C13.  An occurrence is recorded one word late: when the word number pos *)
(* has been processed the map counts the occurrences that ended before it  *)
(* and none that ends with it, and the search ends with all of them        *)
(* counted.                                                                *)
C13_OneTokenLag ==
    \A t \in InsertedTerms :
        /\ (pc = "read" /\ pos > 0) =>
              Count(results, Canonical(t)) = Cardinality(EndedBefore(t, pos))
        /\ Ended =>
              (pc = "done" /\ Count(results, Canonical(t)) = Occurrences(t, tokens))

\* the value reached from node by the keys ws, -1 where a key is missing or
\* the value on the way is the str
RECURSIVE Walk(_, _, _)
Walk(h, node, ws) ==
    IF ws = << >> THEN node
    ELSE IF node = STR \/ node = -1 THEN -1
    ELSE IF Head(ws) \in DOMAIN h[node] THEN Walk(h, h[node][Head(ws)], Tail(ws))
    ELSE -1

\* a is a prefix of b
IsPrefix(a, b) == Len(a) <= Len(b) /\ SubSeq(b, 1, Len(a)) = a

\* the paths of the dicts of the trie
NodePaths(h) == { pk[1] : pk \in { x \in TrieView(h) : x[2] = "dict" } }

(* C14.  In the trie get_trie_from_list returns, the path of every node is *)
(* a prefix of the token sequence of a term of the list, and the node has  *)
(* the key `_` (the search takes it for the end of a term) exactly when    *)
(* its path is the whole token sequence of a term.                         *)
C14_TrieShape ==
    (pc = "returned" /\ ret = "dict") =>
        \A path \in NodePaths(heap) :
            /\ path = << >> \/ \E t \in AllTermTokens : IsPrefix(path, t)
            /\ Contains(heap, Walk(heap, root, path), end) <=> path \in AllTermTokens

\* candidate number k of the queue still waits for the word read last
Waiting(k) == k <= n - i

\* the len words of the text that end with word number k
WordsUpTo(len, k) == SubSeq(tokens, k - len + 1, k)

(* C15 as stated.  At every point of the search every candidate's trie is  *)
(* the node its words lead to from the root, and its words are at least    *)
(* one and are the most recent words read from the text.                   *)
C15_WordsAreMostRecent ==
    \A k \in 1..Len(possible_matches) :
        LET c == possible_matches[k]
        IN  /\ c.words # << >>
            /\ c.trie = Walk(heap, root, c.words)
            /\ Len(c.words) <= pos
            /\ c.words = WordsUpTo(Len(c.words), pos)

\* the candidate c follows its words from the root, and they end with word
\* number last of the text
Follows(c, last) ==
    /\ c.words # << >>
    /\ c.trie = Walk(heap, root, c.words)
    /\ Len(c.words) <= last
    /\ c.words = WordsUpTo(Len(c.words), last)

(* C15, amended.  Every candidate's trie is the value its words lead to    *)
(* from the root and its words are at least one; they are the most recent  *)
(* words of the text once the candidate has been examined for the word     *)
(* read last (or was created for it), and the words just before that word  *)
(* while the candidate still waits in the queue to be examined for it.     *)
(* In python-project.py the same holds of every candidate after each word. *)
C15_CandidateInvariant ==
    /\ \A k \in 1..Len(possible_matches) :
          Follows(possible_matches[k], IF Waiting(k) THEN pos - 1 ELSE pos)
    /\ pp.raised = "none" =>
          \A k \in 1..Len(pp.possible_matches) : Follows(pp.possible_matches[k], pos)

C15_Witness ==
    /\ pc = "scan"
    /\ \E k \in 1..Len(possible_matches) :
          /\ Waiting(k)
          /\ Len(possible_matches[k].words) >= 2
          /\ possible_matches[k].words # WordsUpTo(2, pos)

(* C16.  Once get_trie_from_list has returned the trie, no step of the     *)
(* search changes it: the scan of a candidate, the root check and the      *)
(* final pass leave every dict of the trie as it was built.                *)
C16_TrieFrozen == [][ret = "dict" => heap' = heap]_vars

C16_Witness ==
    /\ pc = "done"
    /\ results # << >>
    /\ \E k \in 1..Len(possible_matches) : Len(possible_matches[k].words) >= 2
    /\ heap = get_trie_from_list(terms).heap

(* C17 as stated.  While one word is processed the list of candidates      *)
(* being scanned is not mutated: it stays as it was when the word arrived. *)
C17_ScannedListUntouched == pc = "scan" => possible_matches = arrived

\* the candidates of list that go on with the word w, each advanced by it
RECURSIVE Advanced(_, _)
Advanced(list, w) ==
    IF list = << >> THEN << >>
    ELSE LET c == Head(list)
         IN  (IF c.trie # STR /\ Contains(heap, c.trie, w)
              THEN <<[trie |-> heap[c.trie][w], words |-> Append(c.words, w)]>>
              ELSE << >>) \o Advanced(Tail(list), w)

\* the candidate the root check adds for the word w, if any
FromRoot(w) ==
    IF Contains(heap, root, w) THEN <<[trie |-> heap[root][w], words |-> <<w>>]>> ELSE << >>

(* C17, amended.  The list is mutated in place, and still every candidate  *)
(* that was in it when the word arrived is examined exactly once for the   *)
(* word and no candidate advanced or created for the word is examined for  *)
(* it again: after i iterations the list holds the candidates i+1..n of    *)
(* the arrival, not yet examined, followed by the first i of them, each    *)
(* advanced once or dropped; the loop makes n iterations, and then the     *)
(* root check adds its candidate.  python-project.py ends the word with    *)
(* the same list.                                                          *)
C17_ExaminedOnce ==
    /\ pc = "scan" =>
          /\ n = Len(arrived) /\ i <= n
          /\ possible_matches =
                SubSeq(arrived, i + 1, n) \o Advanced(SubSeq(arrived, 1, i), word)
    /\ (pc = "read" /\ pos > 0) =>
          possible_matches = Advanced(arrived, word) \o FromRoot(word)
    /\ (pc = "scan" /\ pp.raised = "none") =>
          pp.possible_matches = Advanced(arrived, word) \o FromRoot(word)

C17_Witness ==
    /\ pc = "scan"
    /\ 0 < i /\ i < n
    /\ Len(possible_matches) > n - i

\* the candidate the next step of the search examines, if it examines one
Examined ==
    IF pc = "scan" /\ i < n THEN <<Head(possible_matches)>>
    ELSE IF pc = "flush" /\ fi < Len(possible_matches) THEN <<possible_matches[fi + 1]>>
    ELSE << >>

\* the map d with one more for key
PlusOne(d, key) ==
    [k \in DOMAIN d \cup {key} |-> Count(d, k) + (IF k = key THEN 1 ELSE 0)]

(* C18.  During a search the counts only grow: a step removes no key and   *)
(* lowers no count; a step that examines a candidate whose trie holds the  *)
(* end marker adds exactly 1 to the key of that candidate's words, and     *)
(* every other step leaves the map as it is.                               *)
C18_CountsOnlyGrow ==
    [][ /\ \A key \in DOMAIN results :
              key \in DOMAIN results' /\ results'[key] >= results[key]
        /\ IF Examined # << >> /\ Contains(heap, Examined[1].trie, end)
           THEN results' = PlusOne(results, Canonical(Examined[1].words))
           ELSE results' = results ]_vars

C18_Witness ==
    /\ pc = "done"
    /\ \E key \in DOMAIN results : results[key] >= 2
    /\ Cardinality(DOMAIN results) >= 2

\* the number of words of the longest term of the list
RECURSIVE MaxLenOf(_)
MaxLenOf(S) ==
    IF S = {} THEN 0
    ELSE LET t == CHOOSE x \in S : TRUE
             m == MaxLenOf(S \ {t})
         IN  IF Len(t) > m THEN Len(t) ELSE m

(* C19.  After each word the candidates have words of pairwise distinct    *)
(* lengths, and so there are never more of them than the longest term of   *)
(* the list has words.                                                     *)
C19_ActiveSetBound ==
    pc = "read" =>
        /\ \A j, k \in 1..Len(possible_matches) :
              j # k => Len(possible_matches[j].words) # Len(possible_matches[k].words)
        /\ Len(possible_matches) <= MaxLenOf(InsertedTerms)

\* two lists hold the same candidates, in whatever order
SameCandidates(a, b) ==
    /\ Len(a) = Len(b)
    /\ \A c \in { a[k] : k \in 1..Len(a) } \cup { b[k] : k \in 1..Len(b) } :
          Cardinality({ k \in 1..Len(a) : a[k] = c }) =
          Cardinality({ k \in 1..Len(b) : b[k] = c })

(* C20.  find_matches of trie_search.py and find_matches of                *)
(* python-project.py agree on every term list and every text: after each   *)
(* word their lists hold the same candidates up to order and their maps    *)
(* are equal, they return the same map, and when one raises the other      *)
(* raises the same exception.                                              *)
C20_SameResults ==
    /\ pc = "read" =>
          /\ pp.raised = "none"
          /\ SameCandidates(pp.possible_matches, possible_matches)
          /\ pp.results = results
    /\ pc \in {"flush", "done"} => pp.raised = "none"
    /\ pc = "done" => pp.results = results
    /\ (pc = "error" /\ ret = "dict") => pp.raised = raised

C20_Witness ==
    /\ pc = "done"
    /\ pp.results = results
    /\ Cardinality(DOMAIN pp.results) >= 2
    /\ Len(pp.possible_matches) >= 2

=============================================================================
